---- MODULE Spec2Model ----
(***************************************************************************)
(* Session state synchronisation of Orquestulator's frontend: one          *)
(* useSessionState hook instance bound to one session key, the debounce    *)
(* utility it saves through, the BackendClient requests it issues, and     *)
(* the backend session store those requests reach.                         *)
(***************************************************************************)
EXTENDS Integers, Sequences, FiniteSets, TLC

\* ------------------------------------------------------------------ bounds
MaxCalls == 2        \* set calls made on the hook instance in one behaviour
DebounceTicks == 2   \* debounceMs, in clock ticks

\* --------------------------------------------------------------- constants
Values == {0, 1}                  \* the session values set and stored
Absent == -1                      \* the key is not in the session data
DefaultValue == 0                 \* defaultValue handed to the hook
Key == "k1"                       \* key the hook instance is bound to
OtherKey == "k2"                  \* some other key of the same session
Keys == {Key, OtherKey}
Null == <<>>                      \* error === null
NoTimer == 0                      \* timeoutId === undefined
Interval == <<"interval">>        \* the handle setInterval returns

VARIABLES
  phase,        \* "constructed" (rendered, effects not run), "mounted", "unmounted";
                \* "none" while the App does not render MainPage
  autoLoad,     \* options.autoLoad
  value,        \* the hook's React state `value` (latest queued state)
  rendered,     \* `value` as returned by the last render
  isLoaded,     \* the hook's React state `isLoaded`
  error,        \* the hook's React state `error`: Null or a message
  hasLoadedRef, \* hasLoadedRef.current
  timeoutId,    \* debounce closure variable timeoutId
  timers,       \* the browser's table of active timeouts
  net,          \* requests in flight (sent, not yet completed)
  store,        \* the backend session record's data map
  sessionValid, \* the backend still knows the session cookie
  calls,        \* history: the set calls made, in order
  issued,       \* history: the remote writes issued, in order
  sinceLast,    \* history: ticks since the last debounced save call (capped)
  landed,       \* history: the calls whose write the store applied, in order
  reads,        \* history: number of session-data reads issued
  loadOutcome,  \* history: how the initial load ended
  canceled,     \* history: call ids whose timer the unmount cleanup cleared
  query,        \* MainPage: the query pane's text
  queryType,    \* MainPage: "orquesta", "yaql" or "jinja2"
  contextData,  \* MainPage: the context / data pane's text
  resultData,   \* MainPage: the task result pane's text
  taskStatusOverride, \* MainPage: the task status toggle
  evaluation,   \* MainPage: the evaluation pane's text
  evaluationStatus,   \* MainPage: '', 'error' or 'success'
  isLoading,    \* MainPage: an evaluation is running
  evalNet,      \* evaluate requests in flight
  lastEval,     \* history: what the last evaluateExpression call did
  isAuthenticated,    \* App: the main page is shown instead of the login screen
  onSessionExpired,   \* BackendClient.onSessionExpired: Null or the callback
  st2CustomUrl,       \* MainPage: the custom connection's URL field
  st2ConnectionStatus,\* MainPage: '', 'loading', 'error' or 'success'
  st2Alert,     \* MainPage: the StackStorm panel's alert
  st2Loading,   \* MainPage: an execution fetch is running
  connCurrent,  \* backend session record: the selected connection
  connCustomUrl,\* backend session record: the custom connection's URL
  pageNet,      \* StackStorm requests in flight
  got401,       \* history: a StackStorm request was answered with a 401
  connsLoaded,  \* history: the connections read of the mount completed
  shown,        \* history: outcome of the last StackStorm operation
  dbCalls,      \* debounce: the arguments of the calls made, in order
  dbRan,        \* debounce: the invocations of func that ran, in order
  dbCanceled,   \* debounce: calls whose timeout cancel() cleared
  dbNoop,       \* debounce: no cancel() with nothing pending changed a timeout
  sessionCheckInterval, \* BackendClient.sessionCheckInterval: Null or the interval
  isCheckingSession,    \* BackendClient.isCheckingSession
  hbNet,        \* heartbeat status checks in flight
  hbStarted,    \* history: number of heartbeat checks started
  hbDone,       \* history: how the completed heartbeat checks ended, in order
  hbSkipped,    \* history: a tick returned without starting a check
  isCheckingAuth,   \* App: the status check of the mount has not finished
  authError,    \* App: the error shown above the screen
  ppPassphrase, \* PassPhrase: the input's text
  ppIsLoading,  \* PassPhrase: isLoading
  ppError,      \* PassPhrase: error
  authNet,      \* status and auth requests in flight
  statusCheck,  \* history: "none", "sent", then how the status check ended
  reported,     \* history: the backend has answered authenticated: true
  submitted     \* history: how the last passphrase submission went

hookVars == <<phase, autoLoad, value, rendered, isLoaded, error, hasLoadedRef>>
timerVars == <<timeoutId, timers>>
serverVars == <<store, sessionValid>>
histVars == <<calls, issued, sinceLast, landed, reads, loadOutcome, canceled>>
evalVars == <<query, queryType, contextData, resultData, taskStatusOverride,
              evaluation, evaluationStatus, isLoading, evalNet, lastEval>>
st2Vars == <<isAuthenticated, onSessionExpired, st2CustomUrl, st2ConnectionStatus,
             st2Alert, st2Loading, connCurrent, connCustomUrl, pageNet, got401,
             connsLoaded, shown>>
dbVars == <<dbCalls, dbRan, dbCanceled, dbNoop>>
hbVars == <<sessionCheckInterval, isCheckingSession, hbNet, hbStarted, hbDone,
            hbSkipped>>
appVars == <<isCheckingAuth, authError, ppPassphrase, ppIsLoading, ppError, authNet,
             statusCheck, reported, submitted>>
otherVars == <<dbVars, hbVars, appVars>>
pageVars == <<st2Vars, evalVars, otherVars>>
hookAll == <<hookVars, timerVars, net, serverVars, histVars>>
vars == <<hookVars, timerVars, net, serverVars, histVars, pageVars>>

\* ----------------------------------------------------------------- helpers
Min(a, b) == IF a < b THEN a ELSE b

\* String.prototype.includes, on messages kept as word sequences
Includes(msg, word) == \E i \in DOMAIN msg : msg[i] = word

\* the functions a functional update may pass
Fns == {"inc"}
Apply(f, x) == (x + 1) % Cardinality(Values)

\* the argument of a set call: a plain value or a function of the previous one
NewValues == [kind : {"val"}, v : Values] \cup [kind : {"fn"}, f : Fns]

\* error messages thrown along the request path
MsgGetFailed == <<"Failed", "to", "get", "session", "data">>
MsgSaveFailed == <<"Failed", "to", "save", "session", "data">>
MsgFetch == <<"Failed", "to", "fetch">>

\* ---------------------------------------------------------------- messages
EmptyData == [k \in Keys |-> Absent]
GetRequest == [type |-> "GET", call |-> 0, key |-> Key, val |-> Absent]

\* a save whose body names another key than the one it was given
PostRequestOtherKey(k, v, c) ==
  [type |-> "POST", call |-> c, key |-> CHOOSE o \in Keys : o # k, val |-> v]

\* saveSessionData's request: POST /api/session/data {data: {[key]: value}}
PostRequest(k, v, c) == [type |-> "POST", call |-> c, key |-> k, val |-> v]
Response(st, d) == [status |-> st, data |-> d]

\* ------------------------------------------------------------ session store
\* how a request can end: an HTTP status from the backend, or fetch rejecting
Statuses == (IF sessionValid THEN {"ok", "500"} ELSE {"401"}) \cup {"neterr"}

\* GET /api/session/data
ServerGet(st) == Response(st, IF st = "ok" THEN store ELSE EmptyData)

\* POST /api/session/data {data: {key: value}}: the data map afterwards
ServerPost(req, st) == IF st = "ok" THEN [store EXCEPT ![req.key] = req.val] ELSE store

\* ------------------------------------------------------------ BackendClient
\* makeRequest: "null" on a 401, "throw" when fetch rejects, else the response
makeRequest(resp) ==
  IF resp.status = "neterr" THEN "throw"
  ELSE IF resp.status = "401" THEN "null"
  ELSE "response"

\* getSessionData: what the awaited call yields to loadInitialValue
getSessionData(resp) ==
  LET r == makeRequest(resp) IN
  IF r = "throw" THEN [threw |-> TRUE, msg |-> MsgFetch, isNull |-> FALSE,
                       success |-> FALSE, data |-> EmptyData]
  ELSE IF r = "null" THEN [threw |-> FALSE, msg |-> <<>>, isNull |-> TRUE,
                           success |-> FALSE, data |-> EmptyData]
  ELSE IF resp.status = "ok" THEN [threw |-> FALSE, msg |-> <<>>, isNull |-> FALSE,
                                   success |-> TRUE, data |-> resp.data]
  ELSE [threw |-> TRUE, msg |-> MsgGetFailed, isNull |-> FALSE,
        success |-> FALSE, data |-> EmptyData]

\* saveSessionData: <<>> when it resolves, else the message of the Error it throws
saveSessionData(resp) ==
  LET r == makeRequest(resp) IN
  IF r = "throw" THEN <<"Session", "save", "failed">> \o MsgFetch
  ELSE IF r = "null" THEN <<>>
  ELSE IF resp.status = "ok" THEN <<>>
  ELSE <<"Session", "save", "failed">> \o MsgSaveFailed

\* ---------------------------------------------------------------- debounce
clearTimeout(tbl, id) == {t \in tbl : t.id # id}

\* debouncedFunction without its clearTimeout
debouncedFunctionNoClear(tbl, id, newId, arg) ==
  tbl \cup {[id |-> newId, remaining |-> DebounceTicks, arg |-> arg]}

\* debouncedFunction that keeps a pending timer and drops the new call
debouncedFunctionKeepFirst(tbl, id, newId, arg) ==
  IF \E t \in tbl : t.id = id THEN tbl
  ELSE tbl \cup {[id |-> newId, remaining |-> DebounceTicks, arg |-> arg]}

\* debouncedFunction(...args): the timer table after the call
debouncedFunction(tbl, id, newId, arg) ==
  clearTimeout(tbl, id) \cup {[id |-> newId, remaining |-> DebounceTicks, arg |-> arg]}

\* cancel that clears nothing
cancelNothing(tbl, id) == tbl

\* debouncedFunction.cancel(): the timer table after the call
cancel(tbl, id) == clearTimeout(tbl, id)

\* ---------------------------------------------------------- useSessionState
\* the catch clause with its two tests un-negated
SurfaceLoadErrorAuthOnly(msg) ==
  msg # <<>> /\ (Includes(msg, "401") \/ Includes(msg, "authentication"))

\* the catch clause of loadInitialValue surfaces the error
SurfaceLoadError(msg) ==
  msg # <<>> /\ ~Includes(msg, "401") /\ ~Includes(msg, "authentication")

LoadErrorMessage(msg) == <<"Failed", "to", "load", Key>> \o msg
SaveErrorMessage(msg) == <<"Failed", "to", "save", Key>> \o msg

\* the presence test left out
KeyInAlways(k, data) == TRUE

\* key in response.data
KeyIn(k, data) == data[k] # Absent

\* the load marked complete only when the read yielded a response
finallyLoadedOnSuccess(r) == ~r.isNull /\ ~r.threw

\* the finally clause of loadInitialValue: what isLoaded and hasLoadedRef.current
\* become, whatever the awaited read yielded
finallyLoaded(r) == TRUE

\* actualValue of setValueWithSync
ActualValue(newValue, prev) ==
  IF newValue.kind = "fn" THEN Apply(newValue.f, prev) ELSE newValue.v

\* setValueWithSync without its gate
GateOpenAlways == TRUE

\* the gate of setValueWithSync
GateOpen == hasLoadedRef

\* immediateSave sending the closed-over state instead of the new value
immediateSaveStale(v, id) == {PostRequest(Key, value, id)}

\* immediateSave(newValue): the requests it sends
immediateSave(v, id) == {PostRequest(Key, v, id)}

\* history: the entry logged for a write request at the moment it is sent
Logged(req, src) == [call |-> req.call, key |-> req.key, val |-> req.val, src |-> src,
                     load |-> loadOutcome, phase |-> phase, n |-> Len(calls),
                     age |-> IF src = "timer" THEN sinceLast ELSE 0]

\* the hook instance after construction
HookInit ==
  /\ phase = "constructed"
  /\ autoLoad \in BOOLEAN
  /\ value = DefaultValue
  /\ rendered = DefaultValue
  /\ isLoaded = ~autoLoad
  /\ error = Null
  /\ hasLoadedRef = FALSE
  /\ timeoutId = NoTimer
  /\ timers = {}
  /\ net = {}
  /\ store \in {s \in [Keys -> Values \cup {Absent}] : s[OtherKey] = 1}
  /\ sessionValid = TRUE
  /\ calls = <<>>
  /\ issued = <<>>
  /\ sinceLast = DebounceTicks
  /\ landed = <<>>
  /\ reads = 0
  /\ loadOutcome = "none"
  /\ canceled = {}

\* the hook's mount effects: the load effect issues the read
MountEffects ==
  /\ phase = "constructed"
  /\ phase' = "mounted"
  /\ IF autoLoad /\ ~hasLoadedRef
     THEN /\ error' = Null
          /\ net' = net \cup {GetRequest}
          /\ reads' = reads + 1
          /\ loadOutcome' = "pending"
     ELSE UNCHANGED <<error, net, reads, loadOutcome>>
  /\ UNCHANGED <<autoLoad, value, rendered, isLoaded, hasLoadedRef, timerVars,
                 serverVars, calls, issued, sinceLast, landed, canceled>>

\* a component holding one hook instance mounts
Mount ==
  /\ MountEffects
  /\ UNCHANGED pageVars

\* the read completes: the backend handles it and loadInitialValue continues
\* after `await backendClient.getSessionData()`
LoadInitialValue ==
  \E req \in net, st \in Statuses :
    /\ req.type = "GET"
    /\ LET r == getSessionData(ServerGet(st))
           present == ~r.threw /\ ~r.isNull /\ r.success /\ KeyIn(Key, r.data)
       IN /\ value' = IF present THEN r.data[Key] ELSE value
          /\ error' = IF r.threw /\ SurfaceLoadError(r.msg)
                      THEN LoadErrorMessage(r.msg) ELSE Null
          /\ isLoaded' = (isLoaded \/ finallyLoaded(r))
          /\ hasLoadedRef' = (hasLoadedRef \/ finallyLoaded(r))
    /\ loadOutcome' = IF st = "ok" THEN (IF store[Key] # Absent THEN "present" ELSE "absent")
                      ELSE IF st = "401" THEN "401" ELSE "error"
    /\ net' = net \ {req}
    /\ UNCHANGED <<phase, autoLoad, rendered, timerVars, serverVars,
                   calls, issued, sinceLast, landed, reads, canceled>>
    /\ UNCHANGED pageVars

\* setValueWithSync(newValue, immediate)
SetValueWithSync(newValue, immediate) ==
  /\ phase = "mounted"
  /\ Len(calls) < MaxCalls
  /\ LET actualValue == ActualValue(newValue, value)
         id == Len(calls) + 1
         sent == IF GateOpen /\ immediate THEN immediateSave(actualValue, id) ELSE {}
     IN /\ value' = actualValue
        /\ calls' = Append(calls, [mode |-> IF immediate THEN "immediate" ELSE "debounced",
                                   fn |-> newValue.kind = "fn", res |-> actualValue,
                                   load |-> loadOutcome])
        /\ net' = net \cup sent
        /\ issued' = IF sent = {} THEN issued
                     ELSE Append(issued, Logged(CHOOSE r \in sent : TRUE, "immediate"))
        /\ IF GateOpen /\ ~immediate
           THEN /\ timers' = debouncedFunction(timers, timeoutId, id, actualValue)
                /\ timeoutId' = id
                /\ sinceLast' = 0
           ELSE UNCHANGED <<timerVars, sinceLast>>
  /\ UNCHANGED <<phase, autoLoad, rendered, isLoaded, error, hasLoadedRef,
                 serverVars, landed, reads, loadOutcome, canceled>>

setDebounced ==
  /\ \E nv \in NewValues : SetValueWithSync(nv, FALSE)
  /\ UNCHANGED pageVars

\* setValueImmediate(newValue)
setValueImmediate ==
  /\ \E nv \in NewValues : SetValueWithSync(nv, TRUE)
  /\ UNCHANGED pageVars

\* the component re-renders and the hook returns the latest state
Render ==
  /\ phase = "mounted"
  /\ rendered # value
  /\ rendered' = value
  /\ UNCHANGED <<phase, autoLoad, value, isLoaded, error, hasLoadedRef,
                 timerVars, net, serverVars, histVars>>
  /\ UNCHANGED pageVars

\* a debounce timeout expires: func.apply(this, args) issues the save
TimerFire ==
  \E t \in timers :
    /\ t.remaining = 0
    /\ timers' = timers \ {t}
    /\ net' = net \cup {PostRequest(Key, t.arg, t.id)}
    /\ issued' = Append(issued, Logged(PostRequest(Key, t.arg, t.id), "timer"))
    /\ UNCHANGED <<hookVars, timeoutId, serverVars, calls, sinceLast, landed, reads,
                   loadOutcome, canceled>>
    /\ UNCHANGED pageVars

\* a save request completes: the backend handles it and debouncedSave /
\* immediateSave continue after the awaited saveSessionData
SaveSettled ==
  \E req \in net, st \in Statuses :
    /\ req.type = "POST"
    /\ store' = ServerPost(req, st)
    /\ LET msg == saveSessionData(Response(st, EmptyData))
       IN error' = IF msg = <<>> THEN Null ELSE SaveErrorMessage(msg)
    /\ landed' = IF st = "ok" THEN Append(landed, req.call) ELSE landed
    /\ net' = net \ {req}
    /\ UNCHANGED <<phase, autoLoad, value, rendered, isLoaded, hasLoadedRef,
                   timerVars, sessionValid, calls, issued, sinceLast, reads,
                   loadOutcome, canceled>>
    /\ UNCHANGED pageVars

\* the cleanup effect on unmount
Unmount ==
  /\ phase = "mounted"
  /\ phase' = "unmounted"
  /\ timers' = cancel(timers, timeoutId)
  /\ canceled' = canceled \cup {t.id : t \in {u \in timers : u.id = timeoutId}}
  /\ UNCHANGED <<autoLoad, value, rendered, isLoaded, error, hasLoadedRef,
                 timeoutId, net, serverVars, calls, issued, sinceLast, landed, reads,
                 loadOutcome>>
  /\ UNCHANGED pageVars

\* one clock tick
Tick ==
  /\ \/ \E t \in timers : t.remaining > 0
     \/ sinceLast < DebounceTicks
  /\ timers' = {[t EXCEPT !.remaining = IF @ > 0 THEN @ - 1 ELSE 0] : t \in timers}
  /\ sinceLast' = Min(sinceLast + 1, DebounceTicks)
  /\ UNCHANGED <<hookVars, timeoutId, net, serverVars, calls, issued, landed, reads,
                 loadOutcome, canceled>>
  /\ UNCHANGED pageVars

\* the session record expires
SessionExpire ==
  /\ sessionValid
  /\ sessionValid' = FALSE
  /\ UNCHANGED <<hookVars, timerVars, net, store, histVars>>
  /\ UNCHANGED pageVars

\* ------------------------------------------- components outside the page
\* a debounced function that has not been called
DebounceIdle ==
  /\ dbCalls = <<>>
  /\ dbRan = <<>>
  /\ dbCanceled = {}
  /\ dbNoop = TRUE

\* the BackendClient as its constructor leaves it
HeartbeatIdle ==
  /\ sessionCheckInterval = Null
  /\ isCheckingSession = FALSE
  /\ hbNet = {}
  /\ hbStarted = 0
  /\ hbDone = <<>>
  /\ hbSkipped = FALSE

\* the App showing MainPage, the login behind it
AppIdle ==
  /\ isCheckingAuth = FALSE
  /\ authError = <<>>
  /\ ppPassphrase = ""
  /\ ppIsLoading = FALSE
  /\ ppError = <<>>
  /\ authNet = {}
  /\ statusCheck = "authenticated"
  /\ reported = TRUE
  /\ submitted = "none"

OtherIdle ==
  /\ DebounceIdle
  /\ HeartbeatIdle
  /\ AppIdle

\* ----------------------------------------------------- MainPage: evaluation
Whitespace == "  "
Expression == "<% result().stdout %>"
QueryTexts == {"", Whitespace, Expression}

\* the text taken as it is
TrimNothing(text) == text

\* String.prototype.trim
Trim(text) == IF text = Whitespace THEN "" ELSE text

\* parsed documents: an object maps each of ObjKeys to a value or to Missing;
\* a task result is named by what it holds
Missing == "missing"
ObjKeys == {"item", "__task_status", "__task_result"}
TaskStatuses == {"succeeded", "failed"}
EmptyResult == "{}"
HelloResult == "{stdout: Hello World, return_code: 0}"
ResultDocs == {EmptyResult, HelloResult}
EmptyObject == [k \in ObjKeys |-> Missing]
ContextObjects ==
  {o \in [ObjKeys -> {Missing, "v"} \cup TaskStatuses \cup ResultDocs] :
     /\ o["item"] \in {Missing, "v"}
     /\ o["__task_status"] \in {Missing} \cup TaskStatuses
     /\ o["__task_result"] \in {Missing} \cup ResultDocs}

\* a pane's text: empty, blank, not parseable, a top-level array, or the
\* YAML/JSON text of a document
Text(kind, doc) == [kind |-> kind, doc |-> doc]
ContextTexts ==
  {Text(k, EmptyObject) : k \in {"empty", "blank", "malformed", "array"}}
    \cup {Text("object", o) : o \in ContextObjects}
ResultTexts ==
  {Text(k, EmptyResult) : k \in {"empty", "blank", "malformed"}}
    \cup {Text("object", d) : d \in ResultDocs}

\* text.trim() is not the empty string
HasText(text) == text.kind \notin {"empty", "blank"}

\* the text is truthy
Truthy(text) == text.kind # "empty"

Parsed(doc) == [threw |-> FALSE, msg |-> <<>>, isArray |-> FALSE, doc |-> doc]

\* validateAndParseData(dataText): the document, or the Error thrown
validateAndParseData(text) ==
  IF ~HasText(text)
  THEN [threw |-> TRUE, msg |-> <<"Cannot", "parse", "empty", "data">>,
        isArray |-> FALSE, doc |-> text.doc]
  ELSE IF text.kind = "malformed"
  THEN [threw |-> TRUE, msg |-> <<"Invalid", "YAML">>, isArray |-> FALSE, doc |-> text.doc]
  ELSE [threw |-> FALSE, msg |-> <<>>, isArray |-> text.kind = "array", doc |-> text.doc]

MsgQueryEmpty == <<"Error:", "Query", "cannot", "be", "empty">>
MsgNoResponse == <<"Error:", "No", "response", "data", "received">>
MsgEvalFailed == <<"evaluation", "failed">>

\* the data object built with the context spread last
EvaluateDataContextLast(kind, ctx, status, result) ==
  IF kind = "orquesta"
  THEN [k \in ObjKeys |->
          IF ctx[k] # Missing THEN ctx[k]
          ELSE IF k = "__task_status" THEN status
          ELSE IF k = "__task_result" THEN result
          ELSE Missing]
  ELSE ctx

\* the data argument evaluateExpression hands to the client
EvaluateData(kind, ctx, status, result) ==
  IF kind = "orquesta"
  THEN [ctx EXCEPT !["__task_status"] = status, !["__task_result"] = result]
  ELSE ctx

\* POST /api/evaluate/{queryType} {expression, data}
EvaluateRequest(kind, expression, data) ==
  [kind |-> kind, expression |-> expression, data |-> data]

\* the evaluator behind the endpoint: result().stdout of the task result it is given
EvaluatorResult(req) ==
  IF req.kind = "orquesta" /\ req.data["__task_result"] = HelloResult
  THEN <<"Hello World">> ELSE <<"null">>

EvaluateResponse(req, st) ==
  Response(st, IF st = "ok" THEN EvaluatorResult(req)
               ELSE IF st = "500" THEN MsgEvalFailed ELSE <<>>)

\* BackendClient.evaluateExpression: what the awaited call yields
BackendEvaluateExpression(resp) ==
  LET r == makeRequest(resp) IN
  IF r = "throw" THEN [threw |-> TRUE, msg |-> MsgFetch, isNull |-> FALSE, result |-> <<>>]
  ELSE IF r = "null" THEN [threw |-> FALSE, msg |-> <<>>, isNull |-> TRUE, result |-> <<>>]
  ELSE IF resp.status = "ok"
  THEN [threw |-> FALSE, msg |-> <<>>, isNull |-> FALSE, result |-> resp.data]
  ELSE [threw |-> TRUE, msg |-> resp.data, isNull |-> FALSE, result |-> <<>>]

NoEval == [called |-> FALSE, sent |-> FALSE, loading |-> FALSE, override |-> "succeeded"]

\* MainPage.evaluateExpression up to its await (the evaluation pane's own
\* session write is left to its hook instance)
evaluateExpression ==
  /\ phase = "mounted"
  /\ ~isLoading
  /\ LET label == IF queryType = "orquesta" THEN "Context" ELSE "Data"
         ctx == IF HasText(contextData) THEN validateAndParseData(contextData)
                ELSE Parsed(EmptyObject)
         res == IF queryType = "orquesta" /\ Truthy(resultData)
                THEN validateAndParseData(resultData) ELSE Parsed(EmptyResult)
         failure == IF Trim(query) = "" THEN MsgQueryEmpty
                    ELSE IF ctx.threw THEN <<label, "Parse", "Error:">> \o ctx.msg
                    ELSE IF ctx.isArray THEN <<label, "Error:", "Arrays", "are", "not", "supported">>
                    ELSE IF res.threw THEN <<"Task", "Result", "Parse", "Error:">> \o res.msg
                    ELSE <<>>
     IN IF failure # <<>>
        THEN /\ evaluation' = failure
             /\ evaluationStatus' = "error"
             /\ lastEval' = [called |-> TRUE, sent |-> FALSE, loading |-> FALSE,
                             override |-> taskStatusOverride]
             /\ UNCHANGED <<isLoading, evalNet>>
        ELSE /\ isLoading' = TRUE
             /\ evaluationStatus' = ""
             /\ evalNet' = evalNet \cup
                  {EvaluateRequest(queryType, query,
                                   EvaluateData(queryType, ctx.doc, taskStatusOverride, res.doc))}
             /\ lastEval' = [called |-> TRUE, sent |-> TRUE, loading |-> TRUE,
                             override |-> taskStatusOverride]
             /\ UNCHANGED evaluation
  /\ UNCHANGED <<query, queryType, contextData, resultData, taskStatusOverride>>
  /\ UNCHANGED <<hookAll, st2Vars, otherVars>>

\* the evaluate request completes and evaluateExpression continues after its await
EvaluationSettled ==
  \E req \in evalNet, st \in Statuses :
    /\ LET r == BackendEvaluateExpression(EvaluateResponse(req, st))
       IN /\ evaluation' = IF r.threw THEN <<"Error:">> \o r.msg
                           ELSE IF r.isNull THEN MsgNoResponse
                           ELSE r.result
          /\ evaluationStatus' = IF r.threw \/ r.isNull THEN "error" ELSE "success"
    /\ isLoading' = FALSE
    /\ evalNet' = evalNet \ {req}
    /\ UNCHANGED <<query, queryType, contextData, resultData, taskStatusOverride, lastEval>>
    /\ UNCHANGED <<hookAll, st2Vars, otherVars>>

\* the task status toggle
setTaskStatus ==
  /\ phase = "mounted"
  /\ taskStatusOverride' = IF taskStatusOverride = "succeeded" THEN "failed" ELSE "succeeded"
  /\ UNCHANGED <<query, queryType, contextData, resultData, evaluation,
                 evaluationStatus, isLoading, evalNet, lastEval>>
  /\ UNCHANGED <<hookAll, st2Vars, otherVars>>

\* the evaluation part of MainPage after construction
EvalIdle ==
  /\ query = ""
  /\ queryType = "orquesta"
  /\ contextData = Text("empty", EmptyObject)
  /\ resultData = Text("empty", EmptyResult)
  /\ taskStatusOverride = "succeeded"
  /\ evaluation = <<>>
  /\ evaluationStatus = ""
  /\ isLoading = FALSE
  /\ evalNet = {}
  /\ lastEval = NoEval

\* a mounted hook instance whose load found the key absent
HookIdle ==
  /\ phase = "mounted"
  /\ autoLoad = TRUE
  /\ value = DefaultValue
  /\ rendered = DefaultValue
  /\ isLoaded = TRUE
  /\ error = Null
  /\ hasLoadedRef = TRUE
  /\ timeoutId = NoTimer
  /\ timers = {}
  /\ net = {}
  /\ store = [k \in Keys |-> IF k = Key THEN Absent ELSE 1]
  /\ sessionValid = TRUE
  /\ calls = <<>>
  /\ issued = <<>>
  /\ sinceLast = DebounceTicks
  /\ landed = <<>>
  /\ reads = 1
  /\ loadOutcome = "absent"
  /\ canceled = {}

\* ------------------------------------------- MainPage: StackStorm connection
\* here the hook instance is the one of 'st2_current_connection': its value is
\* NoConnection or a connection id
NoConnection == DefaultValue      \* null
NamedConnection == 1              \* a connection of the backend's configuration
Custom == 2                       \* 'custom'
ConnectionIds == {NamedConnection, Custom}
DefaultConnection == NamedConnection
Url == "http://x"
UrlTexts == {"", Whitespace, Url}
RemoteStatuses == {"ok", "404", "401", "403"}

MsgUrlRequired == <<"StackStorm", "URL", "is", "required", "for", "custom", "connection">>
MsgCustomNeedsUrl == <<"Custom", "connection", "must", "have", "a", "url", "property">>
MsgGetConnsFailed == <<"Failed", "to", "get", "StackStorm", "connections">>
MsgSetConnFailed == <<"Failed", "to", "set", "StackStorm", "connection">>
MsgGetExecFailed == <<"Failed", "to", "get", "StackStorm", "execution">>
MsgConnection == <<"Connection", "Error:", "Could", "not", "connect", "to", "backend">>
MsgTestFailed == <<"Failed", "to", "test", "StackStorm", "connection">>
MsgListFailed == <<"Failed", "to", "get", "StackStorm", "executions">>
MsgUnknown == <<"Unknown", "error">>
MsgNoExecutions == <<"No", "executions", "found">>
MsgRemoteDown == <<"Connection", "refused">>

\* requests of the StackStorm panel; seen is st2CurrentConnection as the calling
\* closure holds it, next is what the caller does after the await
ConnectionsRequest(seen) ==
  [type |-> "CONNS", conn |-> NoConnection, url |-> "", seen |-> seen, next |-> "load"]
PutRequest(conn, url, seen, next) ==
  [type |-> "PUT", conn |-> conn, url |-> url, seen |-> seen, next |-> next]
\* an operation request: url is the URL the operation's connection update
\* carried, "" when it made none
OperationTypes == {"EXEC", "TEST", "LIST"}
OperationRequest(type, seen, url) ==
  [type |-> type, conn |-> NoConnection, url |-> url, seen |-> seen, next |-> "show"]
ExecRequest(seen, url) == OperationRequest("EXEC", seen, url)

\* the backend's StackStorm connection manager and execution proxy
\* GET /api/stackstorm/connection
ServerConnections(st) ==
  Response(st, IF st = "ok"
               THEN [current |-> IF connCurrent = NoConnection THEN DefaultConnection
                                 ELSE connCurrent,
                     default |-> DefaultConnection,
                     custom_url |-> connCustomUrl]
               ELSE <<>>)

\* PUT /api/stackstorm/connection: 'custom' needs a URL
SetConnectionValid(req) == req.conn = Custom => req.url # ""
ServerSetConnection(req, st) ==
  IF st = "ok" /\ ~SetConnectionValid(req)
  THEN Response("422", <<"custom", "connection", "requires", "a", "url">>)
  ELSE Response(st, <<>>)
ConnectionAfter(req, st) ==
  IF st = "ok" /\ SetConnectionValid(req)
  THEN <<req.conn, IF req.conn = Custom THEN req.url ELSE connCustomUrl>>
  ELSE <<connCurrent, connCustomUrl>>

\* GET /api/stackstorm/executions/{id}: a remote 404 / 401 / 403 is answered
\* with an error response whose detail names the category
RemoteDetail(remote) ==
  IF remote = "404" THEN <<"Execution", "not", "found">>
  ELSE IF remote = "401" THEN <<"Authentication", "failed">>
  ELSE <<"Access", "forbidden">>
ServerExecution(st, remote) ==
  IF st = "ok" /\ remote # "ok" THEN Response("remote", RemoteDetail(remote))
  ELSE Response(st, <<>>)

\* POST /api/stackstorm/connection/test: {success, message}
ServerTest(st, success) ==
  Response(st, IF st = "ok"
               THEN [success |-> success,
                     message |-> IF success THEN <<>> ELSE MsgRemoteDown]
               ELSE <<>>)

\* GET /api/stackstorm/executions: {executions}
ServerExecutions(st, found) ==
  Response(st, IF st = "ok" THEN [executions |-> IF found THEN <<1>> ELSE <<>>]
               ELSE <<>>)

\* BackendClient: a request method after makeRequest: null on a 401, the body of
\* an OK response, else an Error with the response's detail or the fallback
ApiResult(resp, fallback) ==
  LET r == makeRequest(resp) IN
  IF r = "throw" THEN [threw |-> TRUE, name |-> "TypeError", msg |-> MsgFetch,
                       isNull |-> FALSE, data |-> resp.data]
  ELSE IF r = "null" THEN [threw |-> FALSE, name |-> "", msg |-> <<>>,
                           isNull |-> TRUE, data |-> resp.data]
  ELSE IF resp.status = "ok" THEN [threw |-> FALSE, name |-> "", msg |-> <<>>,
                                   isNull |-> FALSE, data |-> resp.data]
  ELSE [threw |-> TRUE, name |-> "Error",
        msg |-> IF resp.data # <<>> THEN resp.data ELSE fallback,
        isNull |-> FALSE, data |-> <<>>]

\* makeRequest calls the session-expired callback
NotifiesSessionExpired(resp) == resp.status = "401" /\ onSessionExpired # Null

getStackStormConnections(resp) == ApiResult(resp, MsgGetConnsFailed)

\* setStackStormConnection throws before sending
SetConnectionThrows(custom) == custom.given /\ custom.url = ""
setStackStormConnection(resp) == ApiResult(resp, MsgSetConnFailed)

\* getStackStormExecution with the fallback message only
getStackStormExecutionNoDetail(resp) ==
  ApiResult(Response(resp.status, <<>>), MsgGetExecFailed)

getStackStormExecution(resp) == ApiResult(resp, MsgGetExecFailed)
testStackStormConnection(resp) == ApiResult(resp, MsgTestFailed)
getStackStormExecutions(resp) == ApiResult(resp, MsgListFailed)

\* formatNetworkError(error)
formatNetworkError(r) ==
  IF r.name = "TypeError" /\ Includes(r.msg, "fetch") THEN MsgConnection
  ELSE <<"Network", "Error:">> \o r.msg

\* App.fetchStackStormData: the message shown for a response status
fetchStackStormData(status) ==
  IF status = "401" THEN <<"Authentication", "failed:", "Invalid", "or", "missing", "API", "key">>
  ELSE IF status = "404" THEN <<"Execution", "not", "found.", "Check", "the", "execution", "ID.">>
  ELSE IF status = "403" THEN <<"Access", "forbidden:", "Insufficient", "permissions">>
  ELSE <<"StackStorm", "API", "Error">>

\* the URL test of ensureStackStormConnectionSet left out
UrlMissingNever(url) == FALSE

\* ensureStackStormConnectionSet: !st2CustomUrl.trim()
UrlMissing(url) == Trim(url) = ""

\* ensureStackStormConnectionSet that takes every connection as already set
NeedsPutNever(conn) == FALSE

\* ensureStackStormConnectionSet: st2CurrentConnection === 'custom'
NeedsPut(conn) == conn = Custom

\* loadStackStormConnections: !st2CurrentConnection, on the closure's value
ConnectionUnset(seen) == seen = NoConnection

\* what a request's completion does to the App: the callback, when makeRequest
\* calls it, clears isAuthenticated
Answered(resp) ==
  /\ got401' = (got401 \/ resp.status = "401")
  /\ isAuthenticated' = IF NotifiesSessionExpired(resp) THEN FALSE ELSE isAuthenticated
  /\ UNCHANGED onSessionExpired

\* MainPage mounts: the hook's load effect, then loadStackStormConnections()
PageMount ==
  /\ MountEffects
  /\ st2ConnectionStatus' = "loading"
  /\ pageNet' = pageNet \cup {ConnectionsRequest(rendered)}
  /\ UNCHANGED <<isAuthenticated, onSessionExpired, st2CustomUrl, st2Alert, st2Loading,
                 connCurrent, connCustomUrl, got401, connsLoaded, shown>>
  /\ UNCHANGED <<evalVars, otherVars>>

\* the connections read completes and loadStackStormConnections continues
ConnectionsLoaded ==
  \E req \in pageNet, st \in Statuses :
    /\ req.type = "CONNS"
    /\ LET resp == ServerConnections(st)
           r == getStackStormConnections(resp)
           got == ~r.threw /\ ~r.isNull
       IN /\ Answered(resp)
          /\ IF got /\ ConnectionUnset(req.seen)
             THEN SetValueWithSync([kind |-> "val",
                                    v |-> IF r.data.current # NoConnection
                                          THEN r.data.current ELSE r.data.default], TRUE)
             ELSE UNCHANGED <<hookVars, timerVars, net, serverVars, histVars>>
          /\ st2ConnectionStatus' = IF got THEN "" ELSE IF r.threw THEN "error"
                                    ELSE st2ConnectionStatus
          /\ st2CustomUrl' = IF got /\ r.data.current = Custom /\ r.data.custom_url # ""
                                /\ st2CustomUrl = ""
                             THEN r.data.custom_url ELSE st2CustomUrl
          /\ connsLoaded' = (connsLoaded \/ got)
    /\ pageNet' = pageNet \ {req}
    /\ UNCHANGED <<st2Alert, st2Loading, connCurrent, connCustomUrl, shown>>
    /\ UNCHANGED <<evalVars, otherVars>>

\* handleConnectionChange(connectionId)
handleConnectionChange ==
  \E id \in ConnectionIds :
    /\ isAuthenticated
    /\ st2ConnectionStatus # "loading"
    /\ SetValueWithSync([kind |-> "val", v |-> id], TRUE)
    /\ st2Alert' = <<>>
    /\ shown' = "none"
    /\ IF id # Custom
       THEN /\ st2ConnectionStatus' = "loading"
            /\ pageNet' = pageNet \cup {PutRequest(id, "", rendered, "change")}
       ELSE /\ st2ConnectionStatus' = ""
            /\ UNCHANGED pageNet
    /\ UNCHANGED <<isAuthenticated, onSessionExpired, st2CustomUrl, st2Loading,
                   connCurrent, connCustomUrl, got401, connsLoaded>>
    /\ UNCHANGED <<evalVars, otherVars>>

\* fetchStackStormResult up to its first await, ensureStackStormConnectionSet
\* included (the button is enabled, the execution id is given)
fetchStackStormResult ==
  /\ phase = "mounted"
  /\ isAuthenticated
  /\ ~st2Loading
  /\ st2ConnectionStatus # "loading"
  /\ rendered # NoConnection
  /\ LET custom == [given |-> TRUE, url |-> Trim(st2CustomUrl)]
     IN IF NeedsPut(rendered)
        THEN IF UrlMissing(st2CustomUrl)
             THEN /\ st2Alert' = MsgUrlRequired
                  /\ shown' = "no-url"
                  /\ UNCHANGED <<pageNet, st2Loading>>
             ELSE IF SetConnectionThrows(custom)
             THEN /\ st2Alert' = <<"Failed", "to", "update", "custom", "connection:">>
                                   \o MsgCustomNeedsUrl
                  /\ shown' = "threw"
                  /\ UNCHANGED <<pageNet, st2Loading>>
             ELSE /\ st2Alert' = <<>>
                  /\ shown' = "sent"
                  /\ pageNet' = pageNet \cup {PutRequest(Custom, custom.url, rendered, "fetch")}
                  /\ UNCHANGED st2Loading
        ELSE /\ st2Alert' = <<>>
             /\ shown' = "none"
             /\ st2Loading' = TRUE
             /\ pageNet' = pageNet \cup {ExecRequest(rendered, "")}
  /\ UNCHANGED <<isAuthenticated, onSessionExpired, st2CustomUrl, st2ConnectionStatus,
                 connCurrent, connCustomUrl, got401, connsLoaded>>
  /\ UNCHANGED <<hookAll, evalVars, otherVars>>

\* handleTestConnection up to its first await, ensureStackStormConnectionSet
\* included (the button is enabled)
handleTestConnection ==
  /\ phase = "mounted"
  /\ isAuthenticated
  /\ st2ConnectionStatus # "loading"
  /\ rendered # NoConnection
  /\ LET custom == [given |-> TRUE, url |-> Trim(st2CustomUrl)]
     IN IF NeedsPut(rendered)
        THEN IF UrlMissing(st2CustomUrl)
             THEN /\ st2Alert' = MsgUrlRequired
                  /\ shown' = "no-url"
                  /\ UNCHANGED <<pageNet, st2ConnectionStatus>>
             ELSE IF SetConnectionThrows(custom)
             THEN /\ st2Alert' = <<"Failed", "to", "update", "custom", "connection:">>
                                   \o MsgCustomNeedsUrl
                  /\ shown' = "threw"
                  /\ UNCHANGED <<pageNet, st2ConnectionStatus>>
             ELSE /\ st2Alert' = <<>>
                  /\ shown' = "sent"
                  /\ pageNet' = pageNet \cup {PutRequest(Custom, custom.url, rendered, "test")}
                  /\ UNCHANGED st2ConnectionStatus
        ELSE /\ st2Alert' = <<>>
             /\ shown' = "none"
             /\ st2ConnectionStatus' = "loading"
             /\ pageNet' = pageNet \cup {OperationRequest("TEST", rendered, "")}
  /\ UNCHANGED <<isAuthenticated, onSessionExpired, st2CustomUrl, st2Loading,
                 connCurrent, connCustomUrl, got401, connsLoaded>>
  /\ UNCHANGED <<hookAll, evalVars, otherVars>>

\* handleGetLatestExecution up to its first await, ensureStackStormConnectionSet
\* included (the button is enabled)
handleGetLatestExecution ==
  /\ phase = "mounted"
  /\ isAuthenticated
  /\ ~st2Loading
  /\ st2ConnectionStatus # "loading"
  /\ rendered # NoConnection
  /\ LET custom == [given |-> TRUE, url |-> Trim(st2CustomUrl)]
     IN IF NeedsPut(rendered)
        THEN IF UrlMissing(st2CustomUrl)
             THEN /\ st2Alert' = MsgUrlRequired
                  /\ shown' = "no-url"
                  /\ UNCHANGED <<pageNet, st2Loading>>
             ELSE IF SetConnectionThrows(custom)
             THEN /\ st2Alert' = <<"Failed", "to", "update", "custom", "connection:">>
                                   \o MsgCustomNeedsUrl
                  /\ shown' = "threw"
                  /\ UNCHANGED <<pageNet, st2Loading>>
             ELSE /\ st2Alert' = <<>>
                  /\ shown' = "sent"
                  /\ pageNet' = pageNet \cup {PutRequest(Custom, custom.url, rendered, "list")}
                  /\ UNCHANGED st2Loading
        ELSE /\ st2Alert' = <<>>
             /\ shown' = "none"
             /\ st2Loading' = TRUE
             /\ pageNet' = pageNet \cup {OperationRequest("LIST", rendered, "")}
  /\ UNCHANGED <<isAuthenticated, onSessionExpired, st2CustomUrl, st2ConnectionStatus,
                 connCurrent, connCustomUrl, got401, connsLoaded>>
  /\ UNCHANGED <<hookAll, evalVars, otherVars>>

\* a connection update completes: the backend applies it and the caller
\* (handleConnectionChange, or ensureStackStormConnectionSet within
\* an operation's handler) continues
SetConnectionSettled ==
  \E req \in pageNet, st \in Statuses :
    /\ req.type = "PUT"
    /\ connCurrent' = ConnectionAfter(req, st)[1]
    /\ connCustomUrl' = ConnectionAfter(req, st)[2]
    /\ LET resp == ServerSetConnection(req, st)
           r == setStackStormConnection(resp)
       IN /\ Answered(resp)
          /\ IF req.next = "change"
             THEN IF r.threw
                  THEN /\ st2Alert' = <<"Failed", "to", "update", "connection:">> \o r.msg
                       /\ shown' = "change-failed"
                       /\ st2ConnectionStatus' = "loading"
                       /\ pageNet' = (pageNet \ {req}) \cup {ConnectionsRequest(req.seen)}
                       /\ UNCHANGED st2Loading
                  ELSE /\ st2ConnectionStatus' = ""
                       /\ pageNet' = pageNet \ {req}
                       /\ UNCHANGED <<st2Alert, shown, st2Loading>>
             ELSE IF r.threw
                  THEN /\ st2Alert' = <<"Failed", "to", "update", "custom", "connection:">>
                                        \o r.msg
                       /\ shown' = "put-failed"
                       /\ pageNet' = pageNet \ {req}
                       /\ UNCHANGED <<st2ConnectionStatus, st2Loading>>
                  ELSE IF req.next = "test"
                  THEN /\ st2ConnectionStatus' = "loading"
                       /\ shown' = IF r.isNull THEN shown ELSE "applied"
                       /\ pageNet' = (pageNet \ {req})
                                       \cup {OperationRequest("TEST", req.seen, req.url)}
                       /\ UNCHANGED <<st2Alert, st2Loading>>
                  ELSE /\ st2Loading' = TRUE
                       /\ shown' = IF r.isNull THEN shown ELSE "applied"
                       /\ pageNet' = (pageNet \ {req})
                                       \cup {OperationRequest(IF req.next = "list" THEN "LIST"
                                                              ELSE "EXEC", req.seen, req.url)}
                       /\ UNCHANGED <<st2ConnectionStatus, st2Alert>>
    /\ UNCHANGED <<st2CustomUrl, connsLoaded>>
    /\ UNCHANGED <<hookAll, evalVars, otherVars>>

\* the execution read completes and fetchStackStormResult continues
ExecutionSettled ==
  \E req \in pageNet, st \in Statuses, remote \in RemoteStatuses :
    /\ req.type = "EXEC"
    /\ LET resp == ServerExecution(st, remote)
           r == getStackStormExecution(resp)
       IN /\ Answered(resp)
          /\ st2Alert' = IF r.threw THEN formatNetworkError(r) ELSE st2Alert
          /\ st2ConnectionStatus' = IF ~r.threw /\ ~r.isNull THEN "success"
                                    ELSE st2ConnectionStatus
          /\ shown' = IF r.isNull THEN "exec-expired"
                      ELSE IF ~r.threw THEN "exec-ok"
                      ELSE IF resp.status = "remote" THEN remote
                      ELSE "exec-failed"
    /\ st2Loading' = FALSE
    /\ pageNet' = pageNet \ {req}
    /\ UNCHANGED <<st2CustomUrl, connCurrent, connCustomUrl, connsLoaded>>
    /\ UNCHANGED <<hookAll, evalVars, otherVars>>

\* the connection test completes and handleTestConnection continues
TestSettled ==
  \E req \in pageNet, st \in Statuses, success \in BOOLEAN :
    /\ req.type = "TEST"
    /\ LET resp == ServerTest(st, success)
           r == testStackStormConnection(resp)
           passed == IF r.threw \/ r.isNull THEN FALSE ELSE r.data.success
       IN /\ Answered(resp)
          /\ st2ConnectionStatus' = IF passed THEN "success" ELSE "error"
          /\ st2Alert' = IF passed THEN st2Alert
                         ELSE <<"Connection", "test", "failed:">>
                              \o (IF r.threw THEN r.msg
                                  ELSE IF r.isNull \/ r.data.message = <<>> THEN MsgUnknown
                                  ELSE r.data.message)
          /\ shown' = IF passed THEN "test-ok" ELSE "test-failed"
    /\ pageNet' = pageNet \ {req}
    /\ UNCHANGED <<st2CustomUrl, st2Loading, connCurrent, connCustomUrl, connsLoaded>>
    /\ UNCHANGED <<hookAll, evalVars, otherVars>>

\* the executions read completes and handleGetLatestExecution continues
ExecutionsSettled ==
  \E req \in pageNet, st \in Statuses, found \in BOOLEAN :
    /\ req.type = "LIST"
    /\ LET resp == ServerExecutions(st, found)
           r == getStackStormExecutions(resp)
           latest == IF r.threw \/ r.isNull THEN FALSE ELSE r.data.executions # <<>>
       IN /\ Answered(resp)
          /\ st2ConnectionStatus' = IF latest THEN "success" ELSE "error"
          /\ st2Alert' = IF latest THEN st2Alert
                         ELSE IF r.threw
                         THEN <<"Failed", "to", "get", "latest", "execution:">> \o r.msg
                         ELSE MsgNoExecutions
          /\ shown' = IF latest THEN "list-ok" ELSE "list-failed"
    /\ st2Loading' = FALSE
    /\ pageNet' = pageNet \ {req}
    /\ UNCHANGED <<st2CustomUrl, connCurrent, connCustomUrl, connsLoaded>>
    /\ UNCHANGED <<hookAll, evalVars, otherVars>>

\* the App showing MainPage, the StackStorm panel after construction
St2Idle ==
  /\ isAuthenticated = TRUE
  /\ onSessionExpired = Null
  /\ st2CustomUrl = ""
  /\ st2ConnectionStatus = ""
  /\ st2Alert = <<>>
  /\ st2Loading = FALSE
  /\ connCurrent = NoConnection
  /\ connCustomUrl = ""
  /\ pageNet = {}
  /\ got401 = FALSE
  /\ connsLoaded = FALSE
  /\ shown = "none"

\* MainPage constructed after the login, over a session that may hold a
\* current connection and a custom URL from an earlier visit
PageInit ==
  /\ OtherIdle
  /\ phase = "constructed"
  /\ autoLoad = TRUE
  /\ value = NoConnection
  /\ rendered = NoConnection
  /\ isLoaded = FALSE
  /\ error = Null
  /\ hasLoadedRef = FALSE
  /\ timeoutId = NoTimer
  /\ timers = {}
  /\ net = {}
  /\ store \in {st \in [Keys -> ConnectionIds \cup {Absent}] : st[OtherKey] = 1}
  /\ sessionValid = TRUE
  /\ calls = <<>>
  /\ issued = <<>>
  /\ sinceLast = DebounceTicks
  /\ landed = <<>>
  /\ reads = 0
  /\ loadOutcome = "none"
  /\ canceled = {}
  /\ isAuthenticated = TRUE
  /\ onSessionExpired = Null
  /\ st2CustomUrl \in UrlTexts
  /\ st2ConnectionStatus = ""
  /\ st2Alert = <<>>
  /\ st2Loading = FALSE
  /\ connCurrent \in {NoConnection} \cup ConnectionIds
  /\ connCustomUrl = (IF connCurrent = Custom THEN Url ELSE "")
  /\ pageNet = {}
  /\ got401 = FALSE
  /\ connsLoaded = FALSE
  /\ shown = "none"
  /\ EvalIdle

\* MainPage mounting: the session-data load beside the connections read
PageNext ==
  \/ PageMount
  \/ LoadInitialValue
  \/ ConnectionsLoaded
  \/ Render
  \/ SaveSettled
  \/ SessionExpire

PageSpec == PageInit /\ [][PageNext]_vars

\* MainPage mounted, its loads completed, the selection one of `selected`
St2InitFrom(selected) ==
  /\ OtherIdle
  /\ phase = "mounted"
  /\ autoLoad = TRUE
  /\ value \in selected
  /\ rendered = value
  /\ isLoaded = TRUE
  /\ error = Null
  /\ hasLoadedRef = TRUE
  /\ timeoutId = NoTimer
  /\ timers = {}
  /\ net = {}
  /\ store = [k \in Keys |-> IF k = Key THEN value ELSE 1]
  /\ sessionValid = TRUE
  /\ calls = <<>>
  /\ issued = <<>>
  /\ sinceLast = DebounceTicks
  /\ landed = <<>>
  /\ reads = 1
  /\ loadOutcome = "present"
  /\ canceled = {}
  /\ isAuthenticated = TRUE
  /\ onSessionExpired = Null
  /\ st2CustomUrl \in UrlTexts
  /\ st2ConnectionStatus = ""
  /\ st2Alert = <<>>
  /\ st2Loading = FALSE
  /\ connCurrent \in {NoConnection} \cup ConnectionIds
  /\ connCustomUrl = (IF connCurrent = Custom THEN Url ELSE "")
  /\ pageNet = {}
  /\ got401 = FALSE
  /\ connsLoaded = TRUE
  /\ shown = "none"
  /\ EvalIdle

\* MainPage mounted, its loads completed, a connection selected
St2Init == St2InitFrom(ConnectionIds)

\* fetching an execution over the selected connection
St2Next ==
  \/ fetchStackStormResult
  \/ SetConnectionSettled
  \/ ExecutionSettled
  \/ SessionExpire

St2Spec == St2Init /\ [][St2Next]_vars

\* changing the selected connection
ChangeNext ==
  \/ handleConnectionChange
  \/ SetConnectionSettled
  \/ ConnectionsLoaded
  \/ Render
  \/ SaveSettled
  \/ SessionExpire

ChangeSpec == St2Init /\ [][ChangeNext]_vars

\* the three StackStorm operations, with or without a connection selected
OperationInit == St2InitFrom({NoConnection} \cup ConnectionIds)

OperationNext ==
  \/ handleTestConnection
  \/ handleGetLatestExecution
  \/ fetchStackStormResult
  \/ SetConnectionSettled
  \/ TestSettled
  \/ ExecutionsSettled
  \/ ExecutionSettled
  \/ SessionExpire

OperationSpec == OperationInit /\ [][OperationNext]_vars

Init == HookInit /\ St2Idle /\ EvalIdle /\ OtherIdle

\* MainPage mounted with the panes as the session holds them
EvalInit ==
  /\ HookIdle
  /\ St2Idle
  /\ OtherIdle
  /\ query \in QueryTexts
  /\ queryType \in {"orquesta", "yaql", "jinja2"}
  /\ contextData \in ContextTexts
  /\ resultData \in ResultTexts
  /\ taskStatusOverride = "succeeded"
  /\ evaluation = <<>>
  /\ evaluationStatus = ""
  /\ isLoading = FALSE
  /\ evalNet = {}
  /\ lastEval = NoEval

EvalNext ==
  \/ evaluateExpression
  \/ EvaluationSettled
  \/ setTaskStatus
  \/ SessionExpire

EvalSpec == EvalInit /\ [][EvalNext]_vars

Next ==
  \/ Mount
  \/ LoadInitialValue
  \/ setDebounced
  \/ setValueImmediate
  \/ Render
  \/ TimerFire
  \/ SaveSettled
  \/ Unmount
  \/ Tick
  \/ SessionExpire

Spec == Init /\ [][Next]_vars

TypeOK ==
  /\ phase \in {"none", "constructed", "mounted", "unmounted"}
  /\ value \in Values
  /\ rendered \in Values
  /\ timeoutId \in 0 .. MaxCalls + 1
  /\ Len(dbCalls) <= MaxCalls + 1
  /\ Len(dbRan) <= Len(dbCalls)
  /\ dbCanceled \subseteq DOMAIN dbCalls
  /\ dbNoop \in BOOLEAN
  /\ sessionCheckInterval \in {Null, Interval}
  /\ isCheckingSession \in BOOLEAN
  /\ hbStarted \in 0 .. MaxCalls + 1
  /\ hbSkipped \in BOOLEAN
  /\ isCheckingAuth \in BOOLEAN
  /\ ppIsLoading \in BOOLEAN
  /\ reported \in BOOLEAN
  /\ store \in [Keys -> Values \cup {Absent}]
  /\ Len(calls) <= MaxCalls

\* ------------------------------------------------- debounce, on its own
\* the ids the pending invocation of the debounced function has
Pending == {t.id : t \in {u \in timers : u.id = timeoutId}}

\* debouncedFunction(arg) is called
DebounceCall ==
  \E arg \in Values :
    /\ Len(dbCalls) <= MaxCalls
    /\ timers' = debouncedFunction(timers, timeoutId, Len(dbCalls) + 1, arg)
    /\ timeoutId' = Len(dbCalls) + 1
    /\ dbCalls' = Append(dbCalls, arg)
    /\ sinceLast' = 0
    /\ UNCHANGED <<hookVars, net, serverVars, calls, issued, landed, reads,
                   loadOutcome, canceled>>
    /\ UNCHANGED <<st2Vars, evalVars, hbVars, appVars, dbRan, dbCanceled, dbNoop>>

\* debouncedFunction.cancel() is called
DebounceCancel ==
  /\ timers' = cancel(timers, timeoutId)
  /\ dbCanceled' = dbCanceled \cup Pending
  /\ dbNoop' = (dbNoop /\ (Pending = {} => timers' = timers))
  /\ UNCHANGED <<hookVars, timeoutId, net, serverVars, histVars>>
  /\ UNCHANGED <<st2Vars, evalVars, hbVars, appVars, dbCalls, dbRan>>

\* a timeout set by debouncedFunction expires: func.apply(this, args)
DebounceFire ==
  \E t \in timers :
    /\ t.remaining = 0
    /\ timers' = timers \ {t}
    /\ dbRan' = Append(dbRan, [id |-> t.id, arg |-> t.arg, age |-> sinceLast])
    /\ UNCHANGED <<hookVars, timeoutId, net, serverVars, histVars>>
    /\ UNCHANGED <<st2Vars, evalVars, hbVars, appVars, dbCalls, dbCanceled, dbNoop>>

DebounceInit == HookIdle /\ St2Idle /\ EvalIdle /\ OtherIdle

DebounceNext ==
  \/ DebounceCall
  \/ DebounceCancel
  \/ DebounceFire
  \/ Tick

DebounceSpec == DebounceInit /\ [][DebounceNext]_vars

\* --------------------------------------------- BackendClient: heartbeat
\* the interval callback that never returns early
HeartbeatSkipsNever(flag) == FALSE

\* the interval callback returns at once: `if (this.isCheckingSession) return`
HeartbeatSkips(flag) == flag

\* checkAuthStatus: how the awaited call ends for the interval callback
checkAuthStatus(resp) ==
  LET r == makeRequest(resp) IN
  IF r = "throw" THEN "threw"
  ELSE IF r = "null" THEN "null"
  ELSE IF resp.status = "ok" THEN "data"
  ELSE "threw"

\* GET /api/session/status
StatusRequest(id) == [type |-> "STATUS", id |-> id]

\* startSessionHeartbeat(): an interval already running is cleared first
startSessionHeartbeat ==
  /\ sessionCheckInterval' = Interval
  /\ UNCHANGED <<isCheckingSession, hbNet, hbStarted, hbDone, hbSkipped>>
  /\ UNCHANGED <<hookAll, st2Vars, evalVars, dbVars, appVars>>

\* stopSessionHeartbeat()
stopSessionHeartbeat ==
  /\ sessionCheckInterval' = Null
  /\ UNCHANGED <<isCheckingSession, hbNet, hbStarted, hbDone, hbSkipped>>
  /\ UNCHANGED <<hookAll, st2Vars, evalVars, dbVars, appVars>>

\* the interval elapses: the callback up to its await
HeartbeatTick ==
  /\ sessionCheckInterval # Null
  /\ hbStarted <= MaxCalls
  /\ IF HeartbeatSkips(isCheckingSession)
     THEN /\ hbSkipped' = TRUE
          /\ UNCHANGED <<isCheckingSession, hbNet, hbStarted>>
     ELSE /\ isCheckingSession' = TRUE
          /\ hbNet' = hbNet \cup {StatusRequest(hbStarted + 1)}
          /\ hbStarted' = hbStarted + 1
          /\ UNCHANGED hbSkipped
  /\ UNCHANGED <<sessionCheckInterval, hbDone>>
  /\ UNCHANGED <<hookAll, st2Vars, evalVars, dbVars, appVars>>

\* a heartbeat check completes: catch logs, finally clears the flag
HeartbeatSettled ==
  \E req \in hbNet, st \in Statuses :
    /\ hbNet' = hbNet \ {req}
    /\ hbDone' = Append(hbDone, checkAuthStatus(Response(st, EmptyData)))
    /\ isCheckingSession' = FALSE
    /\ UNCHANGED <<sessionCheckInterval, hbStarted, hbSkipped>>
    /\ UNCHANGED <<hookAll, st2Vars, evalVars, dbVars, appVars>>

HeartbeatInit == HookIdle /\ St2Idle /\ EvalIdle /\ OtherIdle

HeartbeatNext ==
  \/ startSessionHeartbeat
  \/ stopSessionHeartbeat
  \/ HeartbeatTick
  \/ HeartbeatSettled
  \/ SessionExpire

HeartbeatSpec == HeartbeatInit /\ [][HeartbeatNext]_vars

\* ------------------------------------------------------ App and PassPhrase
Secret == "secret"
PassTexts == {"", Whitespace, Secret, "wrong"}

MsgConnectFailed == <<"Failed", "to", "connect", "to", "server">>
MsgEnterPassphrase == <<"Please", "enter", "a", "passphrase">>
MsgAuthFailed == <<"Authentication", "failed">>
MsgNetworkError == <<"Network", "error">>

\* the bodies of GET /api/session/status and POST /api/session/auth
NoBody == [authenticated |-> FALSE]

\* GET /api/session/status: the answers the backend can give
StatusReplies ==
  (IF sessionValid THEN {Response("ok", [authenticated |-> TRUE])}
   ELSE {Response("ok", [authenticated |-> FALSE]), Response("401", NoBody)})
  \cup {Response("500", NoBody), Response("neterr", NoBody)}

\* POST /api/session/auth {passphrase}: the answers the backend can give
AuthReplies(pass) ==
  (IF pass = Secret THEN {Response("ok", [authenticated |-> TRUE])}
   ELSE {Response("401", NoBody), Response("ok", [authenticated |-> FALSE])})
  \cup {Response("500", NoBody), Response("neterr", NoBody)}

\* App's render that shows the login only while checking
ScreenNoLogin(checking, authenticated) ==
  IF checking THEN "checking" ELSE "main"

\* App's render: what the App shows
Screen(checking, authenticated) ==
  IF checking THEN "checking"
  ELSE IF authenticated THEN "main"
  ELSE "login"

\* BackendClient.authenticate: what the awaited call yields to handleSubmit
authenticate(resp) ==
  LET r == makeRequest(resp) IN
  IF r = "throw" THEN [threw |-> TRUE, msg |-> MsgFetch, data |-> FALSE]
  ELSE IF r = "null" THEN [threw |-> FALSE, msg |-> <<>>, data |-> FALSE]
  ELSE IF resp.status = "ok" THEN [threw |-> FALSE, msg |-> <<>>, data |-> TRUE]
  ELSE [threw |-> TRUE, msg |-> MsgAuthFailed, data |-> FALSE]

\* the App's mount effect: checkAuthStatus() up to its fetch
AppMount ==
  /\ statusCheck = "none"
  /\ statusCheck' = "sent"
  /\ authNet' = authNet \cup {[type |-> "STATUS", pass |-> ""]}
  /\ UNCHANGED <<isCheckingAuth, authError, ppPassphrase, ppIsLoading, ppError,
                 reported, submitted>>
  /\ UNCHANGED <<hookAll, st2Vars, evalVars, dbVars, hbVars>>

\* the status check completes: checkAuthStatus after its fetch
StatusSettled ==
  \E req \in authNet, resp \in StatusReplies :
    /\ req.type = "STATUS"
    /\ authNet' = authNet \ {req}
    /\ isAuthenticated' = (resp.status = "ok" /\ resp.data.authenticated)
    /\ authError' = IF resp.status = "neterr" THEN MsgConnectFailed ELSE authError
    /\ isCheckingAuth' = FALSE
    /\ statusCheck' = (IF resp.status = "neterr" THEN "network"
                       ELSE IF resp.status # "ok" THEN "not-ok"
                       ELSE IF resp.data.authenticated THEN "authenticated"
                       ELSE "not-authenticated")
    /\ reported' = (reported \/ (resp.status = "ok" /\ resp.data.authenticated))
    /\ UNCHANGED <<ppPassphrase, ppIsLoading, ppError, submitted>>
    /\ UNCHANGED <<onSessionExpired, st2CustomUrl, st2ConnectionStatus, st2Alert,
                   st2Loading, connCurrent, connCustomUrl, pageNet, got401,
                   connsLoaded, shown>>
    /\ UNCHANGED <<hookAll, evalVars, dbVars, hbVars>>

\* the user types into the passphrase input
setPassphrase ==
  \E text \in PassTexts :
    /\ Screen(isCheckingAuth, isAuthenticated) = "login"
    /\ ~ppIsLoading
    /\ text # ppPassphrase
    /\ ppPassphrase' = text
    /\ UNCHANGED <<isCheckingAuth, authError, ppIsLoading, ppError, authNet,
                   statusCheck, reported, submitted>>
    /\ UNCHANGED <<hookAll, st2Vars, evalVars, dbVars, hbVars>>

\* PassPhrase.handleSubmit up to its await (the form, or Enter in the input)
handleSubmit ==
  /\ Screen(isCheckingAuth, isAuthenticated) = "login"
  /\ ~ppIsLoading
  /\ IF Trim(ppPassphrase) = ""
     THEN /\ ppError' = MsgEnterPassphrase
          /\ submitted' = "blank"
          /\ UNCHANGED <<ppIsLoading, authNet>>
     ELSE /\ ppIsLoading' = TRUE
          /\ ppError' = <<>>
          /\ authNet' = authNet \cup {[type |-> "AUTH", pass |-> ppPassphrase]}
          /\ submitted' = "pending"
  /\ UNCHANGED <<isCheckingAuth, authError, ppPassphrase, statusCheck, reported>>
  /\ UNCHANGED <<hookAll, st2Vars, evalVars, dbVars, hbVars>>

\* the auth request completes: handleSubmit after its await, and the App's
\* handleAuthSuccess when PassPhrase calls onAuthSuccess
AuthSettled ==
  \E req \in authNet : \E resp \in AuthReplies(req.pass) :
    /\ req.type = "AUTH"
    /\ authNet' = authNet \ {req}
    /\ LET r == authenticate(resp) IN
       /\ ppPassphrase' = IF r.data THEN "" ELSE ppPassphrase
       /\ isAuthenticated' = IF r.data THEN TRUE ELSE isAuthenticated
       /\ authError' = IF r.data THEN <<>> ELSE authError
       /\ ppError' = IF r.threw
                     THEN (IF r.msg # <<>> THEN r.msg ELSE MsgNetworkError)
                     ELSE ppError
       /\ submitted' = IF r.data THEN "authenticated" ELSE "failed"
    /\ ppIsLoading' = FALSE
    /\ sessionValid' = (sessionValid \/ (resp.status = "ok" /\ resp.data.authenticated))
    /\ reported' = (reported \/ (resp.status = "ok" /\ resp.data.authenticated))
    /\ UNCHANGED <<isCheckingAuth, statusCheck>>
    /\ UNCHANGED <<onSessionExpired, st2CustomUrl, st2ConnectionStatus, st2Alert,
                   st2Loading, connCurrent, connCustomUrl, pageNet, got401,
                   connsLoaded, shown>>
    /\ UNCHANGED <<hookVars, timerVars, net, store, histVars, evalVars, dbVars, hbVars>>

\* the App renders MainPage: its hooks are constructed
ShowMainPage ==
  /\ phase = "none"
  /\ Screen(isCheckingAuth, isAuthenticated) = "main"
  /\ phase' = "constructed"
  /\ UNCHANGED <<autoLoad, value, rendered, isLoaded, error, hasLoadedRef,
                 timerVars, net, serverVars, histVars>>
  /\ UNCHANGED pageVars

\* the browser opens the App, with or without a session from an earlier visit
AppInit ==
  /\ phase = "none"
  /\ autoLoad = TRUE
  /\ value = DefaultValue
  /\ rendered = DefaultValue
  /\ isLoaded = FALSE
  /\ error = Null
  /\ hasLoadedRef = FALSE
  /\ timeoutId = NoTimer
  /\ timers = {}
  /\ net = {}
  /\ store = [k \in Keys |-> IF k = Key THEN Absent ELSE 1]
  /\ sessionValid \in BOOLEAN
  /\ calls = <<>>
  /\ issued = <<>>
  /\ sinceLast = DebounceTicks
  /\ landed = <<>>
  /\ reads = 0
  /\ loadOutcome = "none"
  /\ canceled = {}
  /\ isAuthenticated = FALSE
  /\ onSessionExpired = Null
  /\ st2CustomUrl = ""
  /\ st2ConnectionStatus = ""
  /\ st2Alert = <<>>
  /\ st2Loading = FALSE
  /\ connCurrent = NoConnection
  /\ connCustomUrl = ""
  /\ pageNet = {}
  /\ got401 = FALSE
  /\ connsLoaded = FALSE
  /\ shown = "none"
  /\ EvalIdle
  /\ DebounceIdle
  /\ HeartbeatIdle
  /\ isCheckingAuth = TRUE
  /\ authError = <<>>
  /\ ppPassphrase = ""
  /\ ppIsLoading = FALSE
  /\ ppError = <<>>
  /\ authNet = {}
  /\ statusCheck = "none"
  /\ reported = FALSE
  /\ submitted = "none"

AppNext ==
  \/ AppMount
  \/ StatusSettled
  \/ setPassphrase
  \/ handleSubmit
  \/ AuthSettled
  \/ ShowMainPage
  \/ Mount
  \/ LoadInitialValue
  \/ SessionExpire

AppSpec == AppInit /\ [][AppNext]_vars

\* ------------------------------------------------------------------ claims
Completed == {"present", "absent", "401", "error"}
AfterLoad(i) == calls[i].load \in Completed
Posts == {r \in net : r.type = "POST"}
WritesOf(i) == {k \in DOMAIN issued : issued[k].call = i}
GatedDebounced == {i \in DOMAIN calls : calls[i].mode = "debounced" /\ AfterLoad(i)}
LastLocal == IF calls = <<>> THEN DefaultValue ELSE calls[Len(calls)].res

\* C1: once the last set call was made after the load completed, nothing is
\* scheduled or in flight any more and every write reached the store (in the
\* order the writes were issued), the value stored under the key is the last
\* local value that was set.
C1_ReadAfterWrite ==
  (/\ calls # <<>>
   /\ AfterLoad(Len(calls))
   /\ timers = {}
   /\ Posts = {}
   /\ landed = [k \in DOMAIN issued |-> issued[k].call]
   /\ canceled = {})
  => store[Key] = calls[Len(calls)].res

\* C2: on an instance that loads on mount, every remote write is issued, and every debounced write scheduled, after
\* the initial load completed and by a call made after it; while the load is
\* outstanding nothing is written, scheduled or in flight.
C2_NoWriteBeforeLoad ==
  autoLoad =>
    /\ \A k \in DOMAIN issued :
         issued[k].load \in Completed /\ AfterLoad(issued[k].call)
    /\ \A t \in timers : AfterLoad(t.id)
    /\ loadOutcome \notin Completed => (issued = <<>> /\ timers = {} /\ Posts = {})

\* C2 witness: a value different from the stored one was set while the load was
\* still outstanding.
C2_Witness ==
  /\ loadOutcome = "pending"
  /\ calls # <<>>
  /\ store[Key] # Absent
  /\ value # store[Key]

\* C3: a write issued by the debounce timer carries the result of the latest
\* debounced call made so far, is issued no earlier than debounceMs after that
\* call, and is the only write of that call; no write carries an earlier call of
\* the burst; the latest debounced call is either still scheduled or written
\* exactly once (unless the unmount canceled it).
C3_DebounceCoalescing ==
  /\ \A k \in DOMAIN issued :
       issued[k].src = "timer" =>
         /\ issued[k].call \in GatedDebounced
         /\ issued[k].val = calls[issued[k].call].res
         /\ issued[k].age >= DebounceTicks
         /\ ~ \E j \in GatedDebounced : issued[k].call < j /\ j <= issued[k].n
  /\ \A i \in DOMAIN calls : Cardinality(WritesOf(i)) <= 1
  /\ \A d \in GatedDebounced :
       (d \notin canceled /\ \A j \in GatedDebounced : j <= d)
         => ((\E t \in timers : t.id = d) # (WritesOf(d) # {}))

\* C3 witness: a burst of two debounced calls ended in one write, of the second.
C3_Witness ==
  /\ Cardinality(GatedDebounced) >= 2
  /\ \E k \in DOMAIN issued :
       /\ issued[k].src = "timer"
       /\ issued[k].call = Len(calls)
       /\ \A j \in DOMAIN issued : issued[j].src = "timer" => j = k

\* C4: on an instance that loads on mount, a setValueImmediate call made after
\* the load completed has issued its write, carrying the new value, during the
\* call itself and through no timer; one made before has issued none; either
\* way the local value is the new value.
C4_ImmediateWrite ==
  \A i \in DOMAIN calls :
    calls[i].mode = "immediate" =>
      /\ (autoLoad /\ AfterLoad(i))
           => \E k \in DOMAIN issued :
                /\ issued[k].call = i
                /\ issued[k].src = "immediate"
                /\ issued[k].val = calls[i].res
                /\ issued[k].n = i - 1
                /\ issued[k].load \in Completed
      /\ (autoLoad /\ ~AfterLoad(i))
           => WritesOf(i) = {}
      /\ \A t \in timers : t.id # i
      /\ (i = Len(calls) /\ (AfterLoad(i) \/ loadOutcome \in {"none", "pending"}))
           => value = calls[i].res

\* C4 witness: the write of an immediate call is in flight while the local
\* value already is the new value.
C4_Witness ==
  \E r \in Posts :
    /\ calls[r.call].mode = "immediate"
    /\ r.call = Len(calls)
    /\ value = r.val
    /\ store[Key] # r.val

\* C5: with autoLoad one read is issued on mount and none otherwise; after a
\* successful load and before any later set call, the local value is the stored
\* value when the key is present and the default (or the edit made meanwhile)
\* when it is absent, and nothing was written, scheduled or sent.
C5_InitialLoad ==
  /\ reads = IF autoLoad /\ phase # "constructed" THEN 1 ELSE 0
  /\ (loadOutcome \in {"present", "absent"} /\ \A i \in DOMAIN calls : ~AfterLoad(i))
       => /\ loadOutcome = "present" => (store[Key] # Absent /\ value = store[Key])
          /\ loadOutcome = "absent" => (store[Key] = Absent /\ value = LastLocal)
          /\ issued = <<>> /\ timers = {} /\ Posts = {}

\* C5 witness: the load found the key and replaced the default.
C5_Witness ==
  /\ loadOutcome = "present"
  /\ reads = 1
  /\ calls = <<>>
  /\ value # DefaultValue

\* C6: until a save is issued, a load that ended with a 401 leaves error null
\* and the local value as it was, and a load that ended with another failure
\* leaves a non-null error message.
C6_LoadErrorReporting ==
  /\ (loadOutcome = "401" /\ issued = <<>>) => (error = Null /\ value = LastLocal)
  /\ (loadOutcome = "error" /\ issued = <<>>) => error # Null

\* C6 witness: a failed read surfaced its message.
C6_Witness ==
  /\ loadOutcome = "error"
  /\ error = LoadErrorMessage(MsgGetFailed)

\* C7 (as claimed): after a load that ended with a 401 no write is ever
\* scheduled or issued.
C7_GateStaysClosed ==
  loadOutcome = "401" => (issued = <<>> /\ timers = {})

\* C7 (amended): a load that ended with a 401 completes like any other: isLoaded
\* and the gate are true, an immediate call made afterwards issues its write and
\* a debounced call schedules one.
C7_GateOpensAfterAuthLoss ==
  loadOutcome = "401" =>
    /\ isLoaded /\ hasLoadedRef
    /\ \A i \in DOMAIN calls :
         AfterLoad(i) =>
           /\ calls[i].mode = "immediate" => WritesOf(i) # {}
           /\ (calls[i].mode = "debounced" /\ i = Len(calls) /\ phase = "mounted")
                => ((\E t \in timers : t.id = i) \/ WritesOf(i) # {})

\* C7 witness: after the 401 a set call issued a write.
C7_Witness ==
  /\ loadOutcome = "401"
  /\ error = Null
  /\ issued # <<>>

\* C8: after the unmount no debounce timer is left, no write is issued by a
\* timer, and the call whose timer the cleanup cleared is never written.
C8_UnmountCancels ==
  /\ phase = "unmounted" => timers = {}
  /\ \A k \in DOMAIN issued :
       /\ issued[k].src = "timer" => issued[k].phase = "mounted"
       /\ issued[k].call \notin canceled

\* C8 witness: the unmount dropped a pending debounced write.
C8_Witness ==
  /\ phase = "unmounted"
  /\ canceled # {}
  /\ Posts = {}
  /\ store[Key] # value

\* C9: each functional update is applied to the local value the previous call
\* produced, and when functional updates made after the load, before any write
\* landed, have all been issued, the value written last is the last result.
C9_FunctionalUpdates ==
  /\ \A i \in DOMAIN calls :
       (i > 1 /\ calls[i].fn /\ calls[i].load = calls[i - 1].load)
         => calls[i].res = Apply("inc", calls[i - 1].res)
  /\ (/\ issued # <<>>
      /\ \A i \in DOMAIN calls : calls[i].fn /\ AfterLoad(i)
      /\ timers = {}
      /\ canceled = {}
      /\ Cardinality(Posts) = Len(issued))
     => issued[Len(issued)].val = calls[Len(calls)].res

\* C10: at most one debounce timer is pending, and it is the one timeoutId names.
C10_OneScheduledWrite ==
  /\ Cardinality(timers) <= 1
  /\ \A t \in timers : t.id = timeoutId

\* C10 witness: a second debounced call rescheduled while the first was pending.
C10_Witness ==
  /\ Cardinality(GatedDebounced) >= 2
  /\ Cardinality(timers) = 1
  /\ issued = <<>>

\* C11: at most one write request of the key is in flight at any time, and the
\* writes reach the store in the order in which their values were set locally.
C11_WritesTotallyOrdered ==
  /\ Cardinality(Posts) <= 1
  /\ \A a, b \in DOMAIN landed : a < b => landed[a] < landed[b]

\* C13: an instance constructed with autoLoad=false counts as loaded: isLoaded
\* is true, no read is issued, and the gate is open, so an immediate call has
\* issued its write and the latest debounced call is scheduled or written.
C13_NoAutoLoadCountsAsLoaded ==
  ~autoLoad =>
    /\ isLoaded
    /\ reads = 0
    /\ \A i \in DOMAIN calls :
         /\ calls[i].mode = "immediate" => WritesOf(i) # {}
         /\ (calls[i].mode = "debounced" /\ i = Len(calls) /\ phase = "mounted")
              => ((\E t \in timers : t.id = i) \/ WritesOf(i) # {})

\* C20: every remote write of the instance names its key, and only it, with the
\* complete value the call produced; the store then holds that value under the
\* key, and the value stored under the other key is the one it always had.
C20_WriteFrame ==
  /\ \A r \in Posts : r.key = Key /\ r.val = calls[r.call].res
  /\ \A k \in DOMAIN issued :
       issued[k].key = Key /\ issued[k].val = calls[issued[k].call].res
  /\ landed # <<>> => store[Key] = calls[landed[Len(landed)]].res
  /\ store[OtherKey] = 1

\* C20 witness: a write created the key in a store that held only the other key.
C20_Witness ==
  /\ loadOutcome = "absent"
  /\ landed # <<>>
  /\ store[Key] = calls[landed[Len(landed)]].res
  /\ store[OtherKey] = 1

C18_ContextReservedKeys ==
  \A r \in evalNet :
    (r.kind = "orquesta" /\ contextData.kind = "object") =>
      /\ contextData.doc["__task_result"] # Missing
           => r.data["__task_result"] = contextData.doc["__task_result"]
      /\ contextData.doc["__task_status"] # Missing
           => r.data["__task_status"] = contextData.doc["__task_status"]

\* C19: with an empty or whitespace-only query, evaluateExpression shows the
\* error message and status 'error', sends no request and never sets isLoading.
C19_EmptyExpression ==
  query \in {"", Whitespace} =>
    /\ ~isLoading
    /\ evalNet = {}
    /\ lastEval.called =>
         /\ evaluation = MsgQueryEmpty
         /\ evaluationStatus = "error"
         /\ ~lastEval.sent
         /\ ~lastEval.loading

\* C19 witness: evaluate was pressed with a whitespace-only query.
C19_Witness ==
  /\ query = Whitespace
  /\ lastEval.called
  /\ evaluationStatus = "error"

\* C12: once a request was answered with a 401, the session-expired handler has
\* run: isAuthenticated is false and the login screen replaces the main page.
C12_SessionExpiredOn401 ==
  got401 => ~isAuthenticated

\* C14: with the custom connection selected and no URL (empty or blank), the
\* operation stops with the URL-required alert, no request is sent and the
\* session record is untouched; a custom connection is never sent or stored
\* without its URL; once the update with a URL was applied, the session record's
\* connection is 'custom' and a read of the connections reports it as current.
C14_CustomConnectionNeedsUrl ==
  /\ \A r \in pageNet : (r.type = "PUT" /\ r.conn = Custom) => r.url = Url
  /\ (rendered = Custom /\ st2CustomUrl \in {"", Whitespace}) =>
       /\ pageNet = {}
       /\ shown \in {"none", "no-url"}
       /\ shown = "no-url" => st2Alert = MsgUrlRequired
  /\ connCurrent = Custom => connCustomUrl = Url
  /\ shown = "applied" =>
       /\ connCurrent = Custom
       /\ ServerConnections("ok").data.current = Custom

\* C14 witness: the custom connection with its URL was applied to a session
\* record and the execution read is under way.
C14_Witness ==
  /\ shown = "applied"
  /\ rendered = Custom
  /\ st2CustomUrl = Url
  /\ connCurrent = Custom
  /\ \E r \in pageNet : r.type = "EXEC"

\* C15: when the session store holds a current connection, then after the
\* session-data load found it and the connections read of the mount completed,
\* in whichever order, the local value is the one the store holds, and no write
\* carrying another value was issued.
C15_StoredConnectionKept ==
  (loadOutcome = "present" /\ connsLoaded) =>
    /\ value = store[Key]
    /\ \A k \in DOMAIN issued : issued[k].val = store[Key]

\* C16: a remote 404, 401 or 403 on an execution read leaves an alert that
\* names the category, and the three alerts differ from each other, from the
\* generic failure and from no alert; so do the three messages of
\* fetchStackStormData.
C16_DistinctExecutionErrors ==
  LET remotes == {"404", "401", "403"}
      generic == formatNetworkError([name |-> "Error", msg |-> MsgGetExecFailed])
      alertOf(s) == <<"Network", "Error:">> \o RemoteDetail(s)
  IN /\ \A s \in remotes : shown = s => (st2Alert = alertOf(s) /\ st2Alert # generic)
     /\ shown = "404" => (Includes(st2Alert, "not") /\ Includes(st2Alert, "found"))
     /\ shown = "401" => (Includes(st2Alert, "Authentication") /\ Includes(st2Alert, "failed"))
     /\ shown = "403" => Includes(st2Alert, "forbidden")
     /\ \A a, b \in remotes :
          /\ a # b => (alertOf(a) # alertOf(b)
                       /\ fetchStackStormData(a) # fetchStackStormData(b))
          /\ fetchStackStormData(a) # fetchStackStormData("500")

\* C16 witness: the execution read met a remote 404 and the alert says so.
C16_Witness ==
  /\ shown = "404"
  /\ st2Alert # <<>>
  /\ ~st2Loading

\* C21: the pending write is a single slot: once an immediate call has issued
\* its write, no debounce timer of an earlier call is left scheduled, and no
\* write of an earlier debounced call is sent after the immediate one.
C21_ImmediateSupersedesDebounced ==
  /\ \A k \in DOMAIN issued :
       issued[k].src = "immediate" => \A t \in timers : t.id > issued[k].call
  /\ \A k, l \in DOMAIN issued :
       (k < l /\ issued[k].src = "immediate" /\ issued[l].src = "timer")
         => issued[l].call > issued[k].call

\* C30: a call made while the initial load is outstanding is never written or
\* scheduled by that call; while every call so far was such an early one, a load
\* that found the key has put the stored value in place of the local one, and a
\* load that found it absent has left the early edit in place, with nothing
\* written, scheduled or stored for the key.
C30_EarlyEditNotWritten ==
  LET early == {i \in DOMAIN calls : calls[i].load = "pending"}
  IN /\ \A i \in early : WritesOf(i) = {} /\ \A t \in timers : t.id # i
     /\ (early = DOMAIN calls /\ loadOutcome = "present")
          => (value = store[Key] /\ store[Key] # Absent)
     /\ (early = DOMAIN calls /\ loadOutcome = "absent")
          => /\ value = LastLocal
             /\ store[Key] = Absent
             /\ issued = <<>> /\ timers = {} /\ Posts = {}

\* C30 witness: an edit made during the load differed from the stored value,
\* and the load has replaced it.
C30_Witness ==
  /\ loadOutcome = "present"
  /\ calls # <<>>
  /\ \A i \in DOMAIN calls : calls[i].load = "pending"
  /\ calls[Len(calls)].res # store[Key]
  /\ value = store[Key]

\* C22: cancel() keeps the pending invocation from ever running, cancel()
\* with nothing pending changes no timeout, and every invocation that runs,
\* those of calls made after a cancel() included, runs a full delay after its
\* call with that call's arguments; the last call, unless cancelled, is
\* pending or has run
C22_CancelPreventsRun ==
  /\ \A k \in DOMAIN dbRan : dbRan[k].id \notin dbCanceled
  /\ dbNoop
  /\ \A k \in DOMAIN dbRan :
       /\ dbRan[k].arg = dbCalls[dbRan[k].id]
       /\ dbRan[k].age = DebounceTicks
  /\ \A k, l \in DOMAIN dbRan : k # l => dbRan[k].id # dbRan[l].id
  /\ (dbCalls # <<>> /\ Len(dbCalls) \notin dbCanceled)
       => (Pending = {Len(dbCalls)}) # (\E k \in DOMAIN dbRan : dbRan[k].id = Len(dbCalls))

\* a call made after a cancel() that cleared the call before it has run
C22_Witness ==
  \E k \in DOMAIN dbRan :
    /\ dbRan[k].id > 1
    /\ dbRan[k].id - 1 \in dbCanceled
    /\ dbRan[k].arg # dbCalls[dbRan[k].id - 1]

\* C23: at most one heartbeat status check is in flight at any time, and
\* isCheckingSession is true exactly while one is: every completed check,
\* whether it returned data, returned null or threw, cleared the flag
C23_HeartbeatNeverOverlaps ==
  /\ Cardinality(hbNet) <= 1
  /\ isCheckingSession = (hbNet # {})
  /\ Len(hbDone) + Cardinality(hbNet) = hbStarted

\* a tick was skipped, a check threw, a check returned null, and a later tick
\* has started a check again
C23_Witness ==
  /\ hbSkipped
  /\ \E k, l \in DOMAIN hbDone : hbDone[k] = "threw" /\ hbDone[l] = "null"
  /\ hbNet # {}
  /\ isCheckingSession

\* C24: MainPage and its hooks exist, and session data is read, only while
\* the App is not checking and is authenticated; the App shows MainPage exactly
\* then; and once the status check has ended, however it ended, isCheckingAuth
\* is false
C24_MainPageOnlyWhenAuthenticated ==
  /\ phase # "none" => (~isCheckingAuth /\ isAuthenticated)
  /\ (reads > 0 \/ net # {}) => (~isCheckingAuth /\ isAuthenticated)
  /\ (Screen(isCheckingAuth, isAuthenticated) = "main")
       <=> (~isCheckingAuth /\ isAuthenticated)
  /\ statusCheck \in {"none", "sent"} <=> isCheckingAuth

\* the status check failed on the network, the passphrase then authenticated,
\* and MainPage's hook has mounted and read the session data
C24_Witness ==
  /\ statusCheck = "network"
  /\ submitted = "authenticated"
  /\ phase = "mounted"
  /\ reads > 0
  /\ loadOutcome # "none"

\* C25: isAuthenticated is true only when the backend has answered
\* authenticated: true, to the status check or to a passphrase submission
C25_AuthenticatedOnlyWhenReported ==
  isAuthenticated => reported

\* C26: a passphrase submission that did not authenticate has left a non-empty
\* error and isLoading false, and a blank passphrase left an error and sent no
\* request
C26_FailedSubmissionShowsError ==
  /\ submitted = "failed" => (ppError # <<>> /\ ~ppIsLoading)
  /\ submitted = "blank" =>
       (ppError # <<>> /\ ~ppIsLoading /\ \A req \in authNet : req.type # "AUTH")

\* C28: st2ConnectionStatus is 'loading' only while the request of
\* loadStackStormConnections, handleConnectionChange or handleTestConnection
\* that set it is still in flight
C28_StatusNotLeftLoading ==
  st2ConnectionStatus = "loading"
    => \E r \in pageNet : \/ r.type \in {"CONNS", "TEST"}
                          \/ r.type = "PUT" /\ r.next = "change"

\* C29: once a failed switch to a named connection has finished, the status is
\* 'error', the alert is not empty, and the local selection is the backend's
\* current connection
C29_FailedSwitchRestored ==
  (shown = "change-failed" /\ pageNet = {} /\ net = {})
    => /\ st2ConnectionStatus = "error"
       /\ st2Alert # <<>>
       /\ value = (IF connCurrent = NoConnection THEN DefaultConnection
                   ELSE connCurrent)

====
